---- MODULE Spec2Model ----
(***************************************************************************)
(* World-state versioning engine of Aventura: per-entry deltas, cascade    *)
(* rollback, auto-snapshots, lightweight (copy-on-write) branches and the  *)
(* lineage resolver, as laid out in IMPLEMENTATION_PLAN.md.                *)
(***************************************************************************)
EXTENDS Integers, Sequences, FiniteSets, TLC

\* ------------------------------------------------------------------ bounds
MaxRows == 3
MaxBranches == 3
MaxPosition == 2
MaxClock == 2
MaxUpdates == 1
SnapshotInterval == 1
MaxEntries == 3
MaxRollbacks == 2
MaxBranchRollbacks == 1
SparseInterval == 2
MaxSparsePosition == 3
MaxLegacyRollbacks == 1
MaxDeepBranches == 4

\* --------------------------------------------------------------- constants
Kinds == {"characters", "items"}
Statuses == {"healthy", "injured"}
LocationRefs == {0, 1}
MainBranch == 0
NoParent == -1
NoOverride == 0
NewRef == 0

RowIds == 1..MaxRows
BranchIds == 0..(MaxBranches - 1)

VARIABLES
    rows,               \* entity tables: id -> row, all kinds
    nextId,             \* next fresh row identity
    timeTracker,        \* in-world clock
    currentLocationId,  \* current-location reference
    entries,            \* story entries, each with its worldStateDelta
    snapshots,          \* world_state_snapshots
    branches,           \* branch id -> [parentId, forkPosition]
    tx,                 \* the rollback in progress, if any
    rollbacks,          \* number of rollbacks begun so far
    last,               \* outcome of the last completed operation
    experimentalFeatures,   \* settings.experimentalFeatures
    hasEverBackedUp,        \* ExperimentalSettings: a backup was made from this panel
    settingsLog,            \* the last settings handler that ran, and what it found
    initialized,            \* InteractiveLorebookService.initialized
    messages,               \* InteractiveLorebookService.messages
    loreEntries,            \* the entries array the caller holds and passes in
    run,                    \* the sendMessage call in progress, or its outcome
    events                  \* what sendMessageStreaming has yielded

engineVars == <<rows, nextId, timeTracker, currentLocationId, entries, snapshots,
                branches, tx, rollbacks, last>>

settingsVars == <<experimentalFeatures, hasEverBackedUp, settingsLog>>

lorebookVars == <<initialized, messages, loreEntries, run, events>>

vars == <<engineVars, settingsVars, lorebookVars>>

\* ----------------------------------------------------------------- helpers
EmptyFcn == [i \in {} |-> 0]

Min(S) == CHOOSE m \in S : \A n \in S : m <= n
Max(S) == CHOOSE m \in S : \A n \in S : m >= n

RECURSIVE SortedSeq(_)
SortedSeq(S) == IF S = {} THEN <<>>
                ELSE LET m == Min(S) IN <<m>> \o SortedSeq(S \ {m})

RECURSIVE DescSeq(_)
DescSeq(S) == IF S = {} THEN <<>>
              ELSE LET m == Max(S) IN <<m>> \o DescSeq(S \ {m})

Range(s) == {s[i] : i \in 1..Len(s)}

World(rs, tt, loc) == [rows |-> rs, timeTracker |-> tt, currentLocationId |-> loc]

\* ---------------------------------------------------------------- branches
RECURSIVE Lineage(_, _)
Lineage(brs, b) ==
    IF brs[b].parentId = NoParent THEN <<b>>
    ELSE Append(Lineage(brs, brs[b].parentId), b)

Ancestors(brs, b) == Range(Lineage(brs, b)) \ {b}

OwnPositions(es, b) == {e.position : e \in {x \in es : x.branchId = b}}

LastPosition(es, brs, b) ==
    IF OwnPositions(es, b) = {} THEN brs[b].forkPosition
    ELSE Max(OwnPositions(es, b))

\* the branch of b's lineage that owns the entry at position p of b's view
RECURSIVE EntryOwner(_, _, _)
EntryOwner(brs, b, p) ==
    IF brs[b].parentId = NoParent \/ p > brs[b].forkPosition THEN b
    ELSE EntryOwner(brs, brs[b].parentId, p)

EntryAt(es, b, p) == CHOOSE e \in es : e.branchId = b /\ e.position = p

\* ---------------------------------------------------------------- resolver
OriginalId(row) == IF row.overridesId # NoOverride THEN row.overridesId ELSE row.id

LocalRows(rs, kind, b) ==
    SortedSeq({i \in DOMAIN rs : rs[i].kind = kind /\ rs[i].branchId = b})

\* variant: a key already in the map keeps its first row
MapSetFirstWins(list, row) ==
    IF \E i \in 1..Len(list) : OriginalId(list[i]) = OriginalId(row)
    THEN list
    ELSE Append(list, row)

\* variant: rows are collected without looking at their key
MapSetAppend(list, row) == Append(list, row)

\* Map.set(originalId, entity): an existing key keeps its place in the map
MapSet(list, row) ==
    IF \E i \in 1..Len(list) : OriginalId(list[i]) = OriginalId(row)
    THEN [i \in 1..Len(list) |->
            IF OriginalId(list[i]) = OriginalId(row) THEN row ELSE list[i]]
    ELSE Append(list, row)

RECURSIVE OverlayRows(_, _, _)
OverlayRows(list, rs, ids) ==
    IF ids = <<>> THEN list
    ELSE OverlayRows(MapSet(list, rs[Head(ids)]), rs, Tail(ids))

RECURSIVE OverlayBranches(_, _, _, _)
OverlayBranches(list, rs, kind, path) ==
    IF path = <<>> THEN list
    ELSE OverlayBranches(OverlayRows(list, rs, LocalRows(rs, kind, Head(path))),
                         rs, kind, Tail(path))

\* variant: the values of the map are returned as they are
AllRows(list) == list

\* tombstones stay in the map and are left out of the returned list
LiveRows(list) == SelectSeq(list, LAMBDA r : ~r.tombstone)

resolve(rs, brs, kind, b) ==
    LiveRows(OverlayBranches(<<>>, rs, kind, Lineage(brs, b)))

ResolvedState(rs, brs, b) == [k \in Kinds |-> resolve(rs, brs, k, b)]

\* the entities a branch sees, all kinds
Visible(rs, brs, b) ==
    UNION {Range(resolve(rs, brs, k, b)) : k \in Kinds}

\* ------------------------------------------------------------- copy-on-write
\* variant: the row found is changed whichever branch it belongs to
writeInPlace(rs, entity, targetBranchId, newId, status) ==
    [rs EXCEPT ![entity.id].status = status]

writeThrough(rs, entity, targetBranchId, newId, status) ==
    IF entity.branchId = targetBranchId
    THEN [rs EXCEPT ![entity.id].status = status]
    ELSE [i \in DOMAIN rs \cup {newId} |->
            IF i = newId
            THEN [entity EXCEPT !.id = newId, !.branchId = targetBranchId,
                                !.overridesId = entity.id, !.status = status]
            ELSE rs[i]]

\* ------------------------------------------------------------ delta recorder
NoDelta ==
    [tracked |-> FALSE,
     previousState |-> [entities |-> [k \in Kinds |-> <<>>],
                        currentLocationId |-> 0, timeTracker |-> 0],
     createdEntities |-> [k \in Kinds |-> {}]]

\* the change-sets the classifier can hand over for a branch
UpdateOps(targets) == [target : targets, status : Statuses]
UpdateSeqs(targets) ==
    UNION {[1..n -> UpdateOps(targets)] : n \in 0..MaxUpdates}
CreateSeqs == {<<>>} \cup {<<c>> : c \in [kind : Kinds, status : {"healthy"}]}

\* travelling moves the party to the other location and advances the clock
Destination(cs, loc) == IF cs.travel THEN 1 - loc ELSE loc
Arrival(cs, tt) == IF cs.travel THEN tt + 1 ELSE tt

ChangeSets(rs, brs, b, tt) ==
    {cs \in [updates : UpdateSeqs({r.id : r \in Visible(rs, brs, b)} \cup {NewRef}),
             creates : CreateSeqs,
             travel : IF tt < MaxClock THEN BOOLEAN ELSE {FALSE}] :
        \* an update of "the entity this change-set creates" needs a creation,
        \* and every update changes the status of its target
        \A i \in 1..Len(cs.updates) :
            IF cs.updates[i].target = NewRef
            THEN cs.creates # <<>> /\ cs.updates[i].status # cs.creates[1].status
            ELSE cs.updates[i].status # rs[cs.updates[i].target].status}

\* variant: the snapshot is taken from the update, not from the stored row
RECURSIVE captureAfterState(_, _, _)
captureAfterState(rs, ups, kind) ==
    IF ups = <<>> THEN <<>>
    ELSE LET u == Head(ups)
             rest == captureAfterState(rs, Tail(ups), kind)
         IN IF u.target # NewRef /\ u.target \in DOMAIN rs /\ rs[u.target].kind = kind
            THEN <<[id |-> u.target, status |-> u.status]>> \o rest
            ELSE rest

\* variant: each update is captured once the updates before it have been applied
RECURSIVE captureRunning(_, _, _)
captureRunning(rs, ups, kind) ==
    IF ups = <<>> THEN <<>>
    ELSE LET u == Head(ups)
             known == u.target # NewRef /\ u.target \in DOMAIN rs
             next == IF known THEN [rs EXCEPT ![u.target].status = u.status] ELSE rs
             rest == captureRunning(next, Tail(ups), kind)
         IN IF known /\ rs[u.target].kind = kind
            THEN <<[id |-> u.target, status |-> rs[u.target].status]>> \o rest
            ELSE rest

\* before-state of every entity the change-set updates, in update order
RECURSIVE captureBeforeState(_, _, _)
captureBeforeState(rs, ups, kind) ==
    IF ups = <<>> THEN <<>>
    ELSE LET u == Head(ups)
             rest == captureBeforeState(rs, Tail(ups), kind)
         IN IF u.target # NewRef /\ u.target \in DOMAIN rs /\ rs[u.target].kind = kind
            THEN <<[id |-> u.target, status |-> rs[u.target].status]>> \o rest
            ELSE rest

ApplyCreate(acc, c, b) ==
    IF acc.nextId > acc.rowLimit THEN [acc EXCEPT !.ok = FALSE]
    ELSE [acc EXCEPT
            !.rows = [i \in DOMAIN acc.rows \cup {acc.nextId} |->
                        IF i = acc.nextId
                        THEN [id |-> acc.nextId, kind |-> c.kind, branchId |-> b,
                              overridesId |-> NoOverride, status |-> c.status,
                              tombstone |-> FALSE]
                        ELSE acc.rows[i]],
            !.created[c.kind] = @ \cup {acc.nextId},
            !.newId = acc.nextId,
            !.nextId = @ + 1]

\* the row of the branch's current view that stands for the update's target
TargetRows(acc, u, b, rs0, brs) ==
    IF u.target = NewRef
    THEN IF acc.newId = 0 THEN {} ELSE {acc.rows[acc.newId]}
    ELSE {r \in Range(resolve(acc.rows, brs, rs0[u.target].kind, b)) :
            OriginalId(r) = OriginalId(rs0[u.target])}

ApplyUpdate(acc, u, b, rs0, brs) ==
    LET found == TargetRows(acc, u, b, rs0, brs) IN
    IF found = {} THEN acc
    ELSE LET entity == CHOOSE r \in found : TRUE IN
         IF entity.branchId = b
         THEN [acc EXCEPT !.rows = writeThrough(acc.rows, entity, b, 0, u.status)]
         ELSE IF acc.nextId > acc.rowLimit THEN [acc EXCEPT !.ok = FALSE]
         ELSE [acc EXCEPT
                 !.rows = writeThrough(acc.rows, entity, b, acc.nextId, u.status),
                 !.created[entity.kind] = @ \cup {acc.nextId},
                 !.nextId = @ + 1]

RECURSIVE ApplyUpdates(_, _, _, _, _)
ApplyUpdates(acc, ups, b, rs0, brs) ==
    IF ups = <<>> THEN acc
    ELSE ApplyUpdates(ApplyUpdate(acc, Head(ups), b, rs0, brs), Tail(ups), b, rs0, brs)

RECURSIVE ApplyCreates(_, _, _)
ApplyCreates(acc, cs, b) ==
    IF cs = <<>> THEN acc
    ELSE ApplyCreates(ApplyCreate(acc, Head(cs), b), Tail(cs), b)

\* the mutation logic of applyClassificationResult
applyClassificationResult(rs, nid, cs, b, brs, createsFirst, rowLimit) ==
    LET acc0 == [rows |-> rs, nextId |-> nid, created |-> [k \in Kinds |-> {}],
                 newId |-> 0, ok |-> TRUE, rowLimit |-> rowLimit]
    IN IF createsFirst
       THEN ApplyUpdates(ApplyCreates(acc0, cs.creates, b), cs.updates, b, rs, brs)
       ELSE ApplyCreates(ApplyUpdates(acc0, cs.updates, b, rs, brs), cs.creates, b)

\* variant: the before-state is read once the mutation logic has run, from the
\* rows that then stand for the updated entities
RECURSIVE captureLate(_, _, _, _)
captureLate(rs, ups, kind, acc) ==
    IF ups = <<>> THEN <<>>
    ELSE LET u == Head(ups)
             rest == captureLate(rs, Tail(ups), kind, acc)
             over == {i \in acc.created[kind] :
                        u.target # NewRef /\ acc.rows[i].overridesId = u.target}
             id == IF u.target = NewRef THEN acc.newId
                   ELSE IF over # {} THEN CHOOSE i \in over : TRUE
                   ELSE u.target
         IN IF id \in DOMAIN acc.rows /\ acc.rows[id].kind = kind
            THEN <<[id |-> id, status |-> acc.rows[id].status]>> \o rest
            ELSE rest

buildDeltaLate(rs, tt, loc, cs, acc) ==
    [tracked |-> TRUE,
     previousState |-> [entities |-> [k \in Kinds |-> captureLate(rs, cs.updates, k, acc)],
                        currentLocationId |-> loc, timeTracker |-> tt],
     createdEntities |-> acc.created]

\* variant: the clock and the location are stored only by a change-set that
\* changes them
buildDeltaOnTravel(rs, tt, loc, cs, acc) ==
    [tracked |-> TRUE,
     previousState |-> [entities |-> [k \in Kinds |-> captureBeforeState(rs, cs.updates, k)],
                        currentLocationId |-> IF cs.travel THEN loc ELSE 0,
                        timeTracker |-> IF cs.travel THEN tt ELSE 0],
     createdEntities |-> acc.created]

buildDelta(rs, tt, loc, cs, acc) ==
    [tracked |-> TRUE,
     previousState |-> [entities |-> [k \in Kinds |-> captureBeforeState(rs, cs.updates, k)],
                        currentLocationId |-> loc, timeTracker |-> tt],
     createdEntities |-> acc.created]

maybeCreateAutoSnapshot(snaps, tracked, b, position, interval, state, tt) ==
    IF tracked /\ position % interval = 0
    THEN snaps \cup {[branchId |-> b, entryBranch |-> b, entryPosition |-> position,
                      lists |-> state, timeTrackerSnapshot |-> tt]}
    ELSE snaps

NoTx == [active |-> FALSE]
NoWorld == World(EmptyFcn, 0, 0)
NoStore == [world |-> NoWorld, entries |-> {}, snapshots |-> {}]
Store == [world |-> World(rows, timeTracker, currentLocationId),
          entries |-> entries, snapshots |-> snapshots]

\* one narrative turn: mutation, delta saved on the new entry, auto-snapshot
recordAndApplyWithin(b, cs, tracked, createsFirst, interval, limit, rowLimit) ==
    LET position == LastPosition(entries, branches, b) + 1
        acc == applyClassificationResult(rows, nextId, cs, b, branches, createsFirst,
                                         rowLimit)
        tt == Arrival(cs, timeTracker)
        loc == Destination(cs, currentLocationId)
        delta == IF tracked THEN buildDelta(rows, timeTracker, currentLocationId, cs, acc)
                 ELSE NoDelta
    IN /\ ~tx.active
       /\ position <= limit
       /\ Cardinality(entries) < Max({MaxEntries, limit})
       /\ acc.ok
       /\ rows' = acc.rows
       /\ nextId' = acc.nextId
       /\ timeTracker' = tt
       /\ currentLocationId' = loc
       /\ entries' = entries \cup
            {[branchId |-> b, position |-> position, worldStateDelta |-> delta,
              pre |-> World(rows, timeTracker, currentLocationId),
              post |-> World(acc.rows, tt, loc)]}
       /\ snapshots' = maybeCreateAutoSnapshot(snapshots, tracked, b, position,
                           interval, ResolvedState(acc.rows, branches, b), tt)
       /\ last' = [op |-> "recorded", branchId |-> b, position |-> position,
                   undone |-> 0, store |-> NoStore, tracked |-> tracked,
                   interval |-> interval]
       /\ UNCHANGED <<branches, tx, rollbacks>>
       /\ UNCHANGED <<settingsVars, lorebookVars>>

recordAndApplyEvery(b, cs, tracked, createsFirst, interval, limit) ==
    recordAndApplyWithin(b, cs, tracked, createsFirst, interval, limit, MaxRows)

\* the steps of the mutation logic that ran before it failed
Interrupted(cs, createsFirst, steps) ==
    LET first == IF createsFirst THEN cs.creates ELSE cs.updates
        second == IF createsFirst THEN cs.updates ELSE cs.creates
        a == SubSeq(first, 1, Min({steps, Len(first)}))
        b == SubSeq(second, 1, Max({0, Min({steps - Len(first), Len(second)})}))
    IN [updates |-> IF createsFirst THEN b ELSE a,
        creates |-> IF createsFirst THEN a ELSE b,
        travel |-> cs.travel /\ steps >= Len(cs.updates) + Len(cs.creates)]

\* variant: the delta is saved although the turn failed
savedAnyway(delta) == delta

\* the delta is built and saved after the mutation logic: a turn that fails
\* before the save leaves the entry without one
savedOnFailure(delta) == NoDelta

\* a narrative turn whose mutation logic fails after some steps, or whose save
\* fails after all of them
recordFailing(b, cs, createsFirst, steps) ==
    LET position == LastPosition(entries, branches, b) + 1
        done == Interrupted(cs, createsFirst, steps)
        acc == applyClassificationResult(rows, nextId, done, b, branches, createsFirst,
                                         MaxRows)
        tt == Arrival(done, timeTracker)
        loc == Destination(done, currentLocationId)
        delta == buildDelta(rows, timeTracker, currentLocationId, cs, acc)
    IN /\ ~tx.active
       /\ position <= MaxPosition
       /\ Cardinality(entries) < MaxEntries
       /\ steps \in 0..(Len(cs.updates) + Len(cs.creates))
       /\ acc.ok
       /\ rows' = acc.rows
       /\ nextId' = acc.nextId
       /\ timeTracker' = tt
       /\ currentLocationId' = loc
       /\ entries' = entries \cup
            {[branchId |-> b, position |-> position,
              worldStateDelta |-> savedOnFailure(delta),
              pre |-> World(rows, timeTracker, currentLocationId),
              post |-> World(acc.rows, tt, loc)]}
       /\ last' = [op |-> "failed", branchId |-> b, position |-> position,
                   undone |-> steps, store |-> Store,
                   missing |-> Len(cs.updates) + Len(cs.creates) - steps]
       /\ UNCHANGED <<snapshots, branches, tx, rollbacks>>
       /\ UNCHANGED <<settingsVars, lorebookVars>>

RecordAndApply(b, cs, tracked, createsFirst) ==
    recordAndApplyEvery(b, cs, tracked, createsFirst, SnapshotInterval, MaxPosition)

\* ------------------------------------------------------------ reconstruction
SnapshotsBefore(snaps, b, position) ==
    {s \in snaps : s.branchId = b /\ s.entryPosition <= position}

getLatestSnapshotBefore(snaps, b, position) ==
    CHOOSE s \in SnapshotsBefore(snaps, b, position) :
        \A t \in SnapshotsBefore(snaps, b, position) : t.entryPosition <= s.entryPosition

\* variant: only a snapshot taken at the position itself is used
reconstructExact(rs, brs, tt, snaps, b, position) ==
    IF \E s \in snaps : s.branchId = b /\ s.entryPosition = position
    THEN LET s == CHOOSE t \in snaps : t.branchId = b /\ t.entryPosition = position
         IN [lists |-> s.lists, timeTracker |-> s.timeTrackerSnapshot]
    ELSE [lists |-> [k \in Kinds |-> <<>>], timeTracker |-> 0]

\* the latest snapshot at or before the position, else the entity rows as they are
reconstructAt(rs, brs, tt, snaps, b, position) ==
    IF SnapshotsBefore(snaps, b, position) # {}
    THEN LET s == getLatestSnapshotBefore(snaps, b, position)
         IN [lists |-> s.lists, timeTracker |-> s.timeTrackerSnapshot]
    ELSE [lists |-> ResolvedState(rs, brs, b), timeTracker |-> tt]

\* ------------------------------------------------------------------ forking
\* variant: the legacy flow, which copies the parent's entities into the branch
deepCopyEntities(rs, brs, parent, b, newId) ==
    LET seen == resolve(rs, brs, "characters", parent)
    IN IF seen = <<>> THEN rs
       ELSE [i \in DOMAIN rs \cup {newId} |->
               IF i = newId THEN [seen[1] EXCEPT !.id = newId, !.branchId = b]
               ELSE rs[i]]

\* lightweightBranches on: entity copying is skipped entirely
copyEntities(rs, brs, parent, b, newId) == rs

\* the fork, with the branch identities still free taken from ids
createBranchAmong(parent, forkPosition, ids) ==
    LET b == Min(ids \ DOMAIN branches) IN
    /\ ~tx.active
    /\ ids \ DOMAIN branches # {}
    /\ forkPosition \in 1..LastPosition(entries, branches, parent)
    /\ branches' = [i \in DOMAIN branches \cup {b} |->
                      IF i = b THEN [parentId |-> parent, forkPosition |-> forkPosition]
                      ELSE branches[i]]
    /\ \E e \in entries : /\ e.branchId = EntryOwner(branches, parent, forkPosition)
                          /\ e.position = forkPosition
    /\ snapshots' = snapshots \cup
         {[branchId |-> b,
           entryBranch |-> EntryOwner(branches, parent, forkPosition),
           entryPosition |-> forkPosition,
           lists |-> ResolvedState(rows, branches, parent),
           timeTrackerSnapshot |-> timeTracker]}
    /\ rows' = copyEntities(rows, branches, parent, b, nextId)
    /\ last' = [op |-> "forked", branchId |-> b, position |-> forkPosition,
                undone |-> 0, store |-> Store]
    /\ UNCHANGED <<nextId, timeTracker, currentLocationId, entries, tx, rollbacks>>
    /\ UNCHANGED <<settingsVars, lorebookVars>>

\* ----------------------------------------------------------- rollback engine
SelectedPositions(es, b, fromPosition) ==
    {p \in OwnPositions(es, b) : p >= fromPosition}

\* variant: the selected entries in reading order
collectAscending(es, b, fromPosition) == SortedSeq(SelectedPositions(es, b, fromPosition))

\* step 1: entries at position >= fromPosition of the branch, position DESC
collectEntries(es, b, fromPosition) == DescSeq(SelectedPositions(es, b, fromPosition))

\* variant: created entities are left in the tables
keepCreated(rs, delta) == rs

deleteCreated(rs, delta) ==
    LET gone == UNION {delta.createdEntities[k] : k \in Kinds}
    IN [i \in DOMAIN rs \ gone |-> rs[i]]

\* database.update*(id, fields): no row, no effect
RECURSIVE restorePrevious(_, _)
restorePrevious(rs, prev) ==
    IF prev = <<>> THEN rs
    ELSE LET p == Head(prev)
             next == IF p.id \in DOMAIN rs
                     THEN [rs EXCEPT ![p.id].status = p.status]
                     ELSE rs
         IN restorePrevious(next, Tail(prev))

RECURSIVE restoreKinds(_, _, _)
restoreKinds(rs, delta, kinds) ==
    IF kinds = {} THEN rs
    ELSE LET k == CHOOSE x \in kinds : TRUE
         IN restoreKinds(restorePrevious(rs, delta.previousState.entities[k]),
                         delta, kinds \ {k})

\* step 2 for one entry; an entry without a delta is skipped
undoDelta(rs, delta) ==
    IF ~delta.tracked THEN rs
    ELSE restoreKinds(deleteCreated(rs, delta), delta, Kinds)

\* variant: the undo of one entry is written to the tables at once
directUndo(persisted, buffered, delta) ==
    [rows |-> undoDelta(persisted, delta), work |-> undoDelta(buffered, delta)]

\* the undo of one entry goes to the transaction's working copy only
bufferedUndo(persisted, buffered, delta) ==
    [rows |-> persisted, work |-> undoDelta(buffered, delta)]

\* steps 3-4: the delta of the first rolled-back entry that has one
TrackedPositions(es, b, positions) ==
    {p \in positions : EntryAt(es, b, p).worldStateDelta.tracked}

\* variant: the delta of the last rolled-back entry
restoreLatest(es, b, positions) == Max(TrackedPositions(es, b, positions))

\* variant: the first rolled-back entry, with or without a delta
restoreFirstEntry(es, b, positions) == Min(positions)

restoreSource(es, b, positions) == Min(TrackedPositions(es, b, positions))

\* variant: every snapshot of the branch goes
deleteWorldStateSnapshotsAll(snaps, b, position) ==
    {s \in snaps : s.branchId # b}

deleteWorldStateSnapshotsAfter(snaps, b, position) ==
    {s \in snaps : ~(s.branchId = b /\ s.entryPosition >= position)}

\* FOREIGN KEY (entry_id) REFERENCES story_entries(id) ON DELETE CASCADE
cascadeSnapshots(snaps, es) ==
    {s \in snaps : \E e \in es : e.branchId = s.entryBranch /\ e.position = s.entryPosition}

\* variant: entries without a delta stay
deleteTrackedEntries(es, b, fromPosition) ==
    {e \in es : ~(e.branchId = b /\ e.position >= fromPosition /\ e.worldStateDelta.tracked)}

deleteEntriesFromPosition(es, b, fromPosition) ==
    {e \in es : ~(e.branchId = b /\ e.position >= fromPosition)}

\* variant: the end of the branch is not looked at
ValidTargetAnyEnd(b, fromPosition) == fromPosition > branches[b].forkPosition

ValidTarget(b, fromPosition) ==
    /\ fromPosition <= LastPosition(entries, branches, b)
    /\ fromPosition > branches[b].forkPosition
    /\ SelectedPositions(entries, b, fromPosition) # {}

RollbackBegin(b, fromPosition) ==
    /\ ~tx.active
    /\ ValidTarget(b, fromPosition)
    /\ tx' = [active |-> TRUE, branchId |-> b, fromPosition |-> fromPosition,
              todo |-> collectEntries(entries, b, fromPosition), done |-> <<>>,
              work |-> rows, pre |-> Store]
    /\ rollbacks' = rollbacks + 1
    /\ UNCHANGED <<rows, nextId, timeTracker, currentLocationId, entries, snapshots,
                   branches, last>>
    /\ UNCHANGED <<settingsVars, lorebookVars>>

RollbackReject(b, fromPosition) ==
    /\ ~tx.active
    /\ ~ValidTarget(b, fromPosition)
    /\ last' = [op |-> "rejected", branchId |-> b, position |-> fromPosition,
                undone |-> 0, store |-> Store]
    /\ UNCHANGED <<rows, nextId, timeTracker, currentLocationId, entries, snapshots,
                   branches, tx, rollbacks>>
    /\ UNCHANGED <<settingsVars, lorebookVars>>

RollbackStep ==
    /\ tx.active
    /\ tx.todo # <<>>
    /\ LET e == EntryAt(entries, tx.branchId, Head(tx.todo))
           r == bufferedUndo(rows, tx.work, e.worldStateDelta)
       IN /\ rows' = r.rows
          /\ tx' = [tx EXCEPT !.todo = Tail(@), !.done = Append(@, Head(tx.todo)),
                              !.work = r.work]
    /\ UNCHANGED <<nextId, timeTracker, currentLocationId, entries, snapshots,
                   branches, rollbacks, last>>
    /\ UNCHANGED <<settingsVars, lorebookVars>>

RollbackCommit ==
    /\ tx.active
    /\ tx.todo = <<>>
    /\ LET b == tx.branchId
           tracked == TrackedPositions(entries, b, Range(tx.done))
           src == EntryAt(entries, b, restoreSource(entries, b, Range(tx.done)))
           left == deleteEntriesFromPosition(entries, b, tx.fromPosition)
       IN /\ rows' = tx.work
          /\ timeTracker' = IF tracked = {} THEN timeTracker
                            ELSE src.worldStateDelta.previousState.timeTracker
          /\ currentLocationId' = IF tracked = {} THEN currentLocationId
                                  ELSE src.worldStateDelta.previousState.currentLocationId
          /\ entries' = left
          /\ snapshots' = cascadeSnapshots(
                 deleteWorldStateSnapshotsAfter(snapshots, b, tx.fromPosition), left)
          /\ last' = [op |-> "committed", branchId |-> b, position |-> tx.fromPosition,
                      undone |-> Len(tx.done), store |-> tx.pre]
    /\ tx' = NoTx
    /\ UNCHANGED <<nextId, branches, rollbacks>>
    /\ UNCHANGED <<settingsVars, lorebookVars>>

\* an error or an interruption at any point before the commit
RollbackAbort ==
    /\ tx.active
    /\ tx' = NoTx
    /\ last' = [op |-> "aborted", branchId |-> tx.branchId, position |-> tx.fromPosition,
                undone |-> Len(tx.done), store |-> tx.pre]
    /\ UNCHANGED <<rows, nextId, timeTracker, currentLocationId, entries, snapshots,
                   branches, rollbacks>>
    /\ UNCHANGED <<settingsVars, lorebookVars>>

createBranchFromCheckpoint(parent, forkPosition) ==
    createBranchAmong(parent, forkPosition, BranchIds)

\* ------------------------------------------------------------ entity deletion
\* the original row an override chain ends at
RECURSIVE Root(_, _)
Root(rs, i) ==
    IF rs[i].overridesId = NoOverride \/ rs[i].overridesId \notin DOMAIN rs THEN i
    ELSE Root(rs, rs[i].overridesId)

\* deleting on a branch: a row of the branch that is an original is removed, an
\* override row of the branch becomes a tombstone, an inherited row gets a
\* tombstone row on the branch and is left alone
writeTombstone(rs, entity, b, newId) ==
    IF entity.branchId = b
    THEN IF entity.overridesId = NoOverride
         THEN [i \in DOMAIN rs \ {entity.id} |-> rs[i]]
         ELSE [rs EXCEPT ![entity.id].tombstone = TRUE]
    ELSE [i \in DOMAIN rs \cup {newId} |->
            IF i = newId
            THEN [entity EXCEPT !.id = newId, !.branchId = b,
                                !.overridesId = OriginalId(entity), !.tombstone = TRUE]
            ELSE rs[i]]

deleteEntity(b, id) ==
    /\ ~tx.active
    /\ b \in DOMAIN branches
    /\ \E entity \in Visible(rows, branches, b) :
         /\ entity.id = id
         /\ entity.branchId # b => nextId <= MaxRows
         /\ rows' = writeTombstone(rows, entity, b, nextId)
         /\ nextId' = IF entity.branchId = b THEN nextId ELSE nextId + 1
         /\ last' = [op |-> "entityDeleted", branchId |-> b, position |-> 0,
                     undone |-> 0, store |-> Store, target |-> Root(rows, id),
                     kind |-> entity.kind]
    /\ UNCHANGED <<timeTracker, currentLocationId, entries, snapshots, branches, tx,
                   rollbacks>>
    /\ UNCHANGED <<settingsVars, lorebookVars>>

\* ------------------------------------------------------------ branch deletion
\* variant: children are not looked for
NoChildren(brs, b) == {}

BlockingChildren(brs, b) == {c \in DOMAIN brs : brs[c].parentId = b}

\* variant: the rows the branch overrides go with it
deleteBranchRowsAndOverridden(rs, b) ==
    LET own == {i \in DOMAIN rs : rs[i].branchId = b}
        overridden == {rs[i].overridesId : i \in own} \ {NoOverride}
    IN [i \in DOMAIN rs \ (own \cup overridden) |-> rs[i]]

\* the branch's local rows: its override rows and the entities it created
deleteBranchRows(rs, b) ==
    [i \in {j \in DOMAIN rs : rs[j].branchId # b} |-> rs[i]]

deleteWorldStateSnapshotsForBranch(snaps, b) == {s \in snaps : s.branchId # b}

deleteBranch(b) ==
    LET children == BlockingChildren(branches, b)
        left == {e \in entries : e.branchId # b}
    IN /\ ~tx.active
       /\ b \in DOMAIN branches \ {MainBranch}
       /\ IF children # {}
          THEN /\ last' = [op |-> "deleteRefused", branchId |-> b, position |-> 0,
                           undone |-> 0, store |-> Store, before |-> branches,
                           blocking |-> children]
               /\ UNCHANGED <<rows, entries, snapshots, branches>>
          ELSE /\ rows' = deleteBranchRows(rows, b)
               /\ entries' = left
               /\ snapshots' = cascadeSnapshots(
                                  deleteWorldStateSnapshotsForBranch(snapshots, b), left)
               /\ branches' = [c \in DOMAIN branches \ {b} |-> branches[c]]
               /\ last' = [op |-> "branchDeleted", branchId |-> b, position |-> 0,
                           undone |-> 0, store |-> Store, before |-> branches,
                           blocking |-> {}]
       /\ UNCHANGED <<nextId, timeTracker, currentLocationId, tx, rollbacks>>
       /\ UNCHANGED <<settingsVars, lorebookVars>>

\* ------------------------------------------------------- experimental settings
DefaultSnapshotInterval == 20
SliderMin == 5
SliderStep == 5
MaxSliderSteps == 1

\* all flags default to false, the interval to 20
defaultExperimentalFeatures ==
    [stateTracking |-> FALSE, rollbackOnDelete |-> FALSE, lightweightBranches |-> FALSE,
     autoSnapshotInterval |-> DefaultSnapshotInterval]

\* the given fields replace the stored ones; disabling stateTracking disables
\* the two features that depend on it
updateExperimentalFeatures(features, updates) ==
    LET merged == [f \in DOMAIN features |->
                     IF f \in DOMAIN updates THEN updates[f] ELSE features[f]]
    IN IF "stateTracking" \in DOMAIN updates /\ ~updates.stateTracking
       THEN [merged EXCEPT !.rollbackOnDelete = FALSE, !.lightweightBranches = FALSE]
       ELSE merged

\* variant: the dependent switches can always be operated
SwitchNeverDisabled(features) == FALSE

\* disabled={!settings.experimentalFeatures.stateTracking}
SwitchDisabled(features) == ~features.stateTracking

\* variant: a slider that starts at 1
SliderValuesFromOne == {1 + k * SliderStep : k \in 0..MaxSliderSteps}

\* the values the slider can hand over: min 5, step 5
SliderValues == {SliderMin + k * SliderStep : k \in 0..MaxSliderSteps}

Logged(op) == [op |-> op, before |-> experimentalFeatures]

handleBackup(result) ==
    /\ hasEverBackedUp' = (hasEverBackedUp \/ result = "created")
    /\ settingsLog' = Logged("backup")
    /\ UNCHANGED <<experimentalFeatures, engineVars, lorebookVars>>

handleStateTrackingToggle(checked, shouldContinue) ==
    /\ experimentalFeatures' =
          IF checked /\ ~hasEverBackedUp /\ ~shouldContinue THEN experimentalFeatures
          ELSE updateExperimentalFeatures(experimentalFeatures,
                                          [stateTracking |-> checked])
    /\ settingsLog' = Logged("stateTracking")
    /\ UNCHANGED <<hasEverBackedUp, engineVars, lorebookVars>>

handleRollbackToggle(checked) ==
    /\ ~SwitchDisabled(experimentalFeatures)
    /\ experimentalFeatures' =
          updateExperimentalFeatures(experimentalFeatures, [rollbackOnDelete |-> checked])
    /\ settingsLog' = Logged("rollbackOnDelete")
    /\ UNCHANGED <<hasEverBackedUp, engineVars, lorebookVars>>

handleLightweightBranchesToggle(checked) ==
    /\ ~SwitchDisabled(experimentalFeatures)
    /\ experimentalFeatures' =
          updateExperimentalFeatures(experimentalFeatures, [lightweightBranches |-> checked])
    /\ settingsLog' = Logged("lightweightBranches")
    /\ UNCHANGED <<hasEverBackedUp, engineVars, lorebookVars>>

handleSnapshotIntervalChange(value) ==
    /\ experimentalFeatures.stateTracking
    /\ experimentalFeatures' =
          updateExperimentalFeatures(experimentalFeatures, [autoSnapshotInterval |-> value])
    /\ settingsLog' = Logged("autoSnapshotInterval")
    /\ UNCHANGED <<hasEverBackedUp, engineVars, lorebookVars>>

handleResetAll ==
    /\ experimentalFeatures' = defaultExperimentalFeatures
    /\ settingsLog' = Logged("reset")
    /\ UNCHANGED <<hasEverBackedUp, engineVars, lorebookVars>>

\* ------------------------------------------------------ interactive lorebook
MAX_ITERATIONS == 10
MaxLore == 3
MaxToolCalls == 2

\* an index that is no number (absent, NaN): no comparison with it is true
NoIndex == -2

NoChange == [type |-> "none"]

NoRun == [pc |-> "idle", mode |-> "none", iterations |-> 0, continueLoop |-> TRUE,
          responseContent |-> "", pendingChanges |-> <<>>, toolCalls |-> <<>>,
          toolCount |-> 0, lastResponse |-> "none", applied |-> {}]

LoreEntry(name, text, priority) == [name |-> name, text |-> text, priority |-> priority]

\* an array slot that holds nothing
Hole == LoreEntry(0, "undefined", 0)

InitialLore == [i \in 1..MaxLore |-> LoreEntry(i, "old", i)]

\* ---- what the provider can send back
IndexValues(n) == {-1, 0, n - 1, n, NoIndex}

MergeIndices(n) == {<<>>, <<0>>, <<0, n - 1>>, <<n - 1, 0>>, <<0, 0>>, <<0, n>>,
                    <<NoIndex, 0>>}

ToolCall(name, index, indices, wellFormed) ==
    [name |-> name, index |-> index, indices |-> indices, wellFormed |-> wellFormed]

ListCall == ToolCall("list_entries", NoIndex, <<>>, TRUE)

ToolCallShapes(n) ==
    {ListCall, ToolCall("create_entry", NoIndex, <<>>, TRUE),
     ToolCall("create_entry", NoIndex, <<>>, FALSE),
     ToolCall("rename_entry", NoIndex, <<>>, TRUE)}
    \cup {ToolCall(name, i, <<>>, TRUE) :
            name \in {"get_entry", "update_entry", "delete_entry"}, i \in IndexValues(n)}
    \cup {ToolCall("merge_entries", NoIndex, is, TRUE) : is \in MergeIndices(n)}

\* the tool calls of one response, numbered on from the calls seen so far
Numbered(shapes, seen) ==
    [i \in 1..Len(shapes) |->
        [id |-> seen + i, name |-> shapes[i].name, index |-> shapes[i].index,
         indices |-> shapes[i].indices, wellFormed |-> shapes[i].wellFormed]]

CallSeqs(n, seen) ==
    IF seen >= MaxToolCalls THEN {<<ListCall>>}
    ELSE UNION {[1..k -> ToolCallShapes(n)] : k \in 1..(MaxToolCalls - seen)}

Responses(n, seen) ==
    {[kind |-> "throw", content |-> "", calls |-> <<>>]}
    \cup {[kind |-> "final", content |-> c, calls |-> <<>>] : c \in {"", "text"}}
    \cup {[kind |-> "tools", content |-> "", calls |-> Numbered(shapes, seen)] :
            shapes \in CallSeqs(n, seen)}

\* ---- processToolCall
InvalidIndex(index, n) == index # NoIndex /\ (index < 0 \/ index >= n)

\* entries[index]
At(es, index) ==
    IF index # NoIndex /\ index >= 0 /\ index < Len(es) THEN es[index + 1] ELSE Hole

Returned(result, change, es) ==
    [threw |-> FALSE, result |-> result, change |-> change, entries |-> es]

Thrown(es) == [threw |-> TRUE, result |-> "", change |-> NoChange, entries |-> es]

PendingChange(type, toolCall, entry, previous, previousEntries) ==
    [type |-> type, toolCallId |-> toolCall.id, entry |-> entry,
     index |-> toolCall.index, indices |-> toolCall.indices,
     updates |-> IF type = "update" THEN "updated" ELSE "",
     previous |-> previous, previousEntries |-> previousEntries, status |-> "pending"]

\* Math.max over the priorities; a slot that holds nothing has none
MaxPriority(es) == IF \E i \in 1..Len(es) : es[i] = Hole THEN 0
                   ELSE Max({es[i].priority : i \in 1..Len(es)})

\* variant: a creation is written to the entries at once
createEntryEager(toolCall, es) ==
    Returned("created", NoChange, Append(es, LoreEntry(0, "created", 10)))

createEntry(toolCall, es) ==
    Returned("pending_approval",
             PendingChange("create", toolCall, LoreEntry(0, "created", 10), Hole, <<>>), es)

\* update_entry and delete_entry: the entry's name is read for the message
changeEntry(type, toolCall, es) ==
    IF InvalidIndex(toolCall.index, Len(es)) THEN Returned("error", NoChange, es)
    ELSE IF toolCall.index = NoIndex THEN Thrown(es)
    ELSE Returned("pending_approval",
                  PendingChange(type, toolCall, Hole, At(es, toolCall.index), <<>>), es)

mergeEntries(toolCall, es) ==
    LET indices == toolCall.indices
        previousEntries == [i \in 1..Len(indices) |-> At(es, indices[i])]
    IN IF \E i \in 1..Len(indices) : InvalidIndex(indices[i], Len(es))
       THEN Returned("error", NoChange, es)
       ELSE IF Len(indices) < 2
       THEN Returned("error", NoChange, es)
       ELSE Returned("pending_approval",
                     PendingChange("merge", toolCall,
                                   LoreEntry(0, "merged", MaxPriority(previousEntries)),
                                   Hole, previousEntries),
                     es)

processToolCall(toolCall, es) ==
    IF ~toolCall.wellFormed THEN Thrown(es)
    ELSE IF toolCall.name = "list_entries" THEN Returned("list", NoChange, es)
    ELSE IF toolCall.name = "get_entry"
    THEN IF InvalidIndex(toolCall.index, Len(es)) THEN Returned("error", NoChange, es)
         ELSE IF toolCall.index = NoIndex THEN Returned("undefined", NoChange, es)
         ELSE Returned("entry", NoChange, es)
    ELSE IF toolCall.name = "create_entry" THEN createEntry(toolCall, es)
    ELSE IF toolCall.name = "update_entry" THEN changeEntry("update", toolCall, es)
    ELSE IF toolCall.name = "delete_entry" THEN changeEntry("delete", toolCall, es)
    ELSE IF toolCall.name = "merge_entries" THEN mergeEntries(toolCall, es)
    ELSE Returned("error", NoChange, es)

\* ---- the agentic loop
Message(role, content, calls, id) ==
    [role |-> role, content |-> content, tool_calls |-> calls, tool_call_id |-> id]

Event(type, id) == [type |-> type, id |-> id]

Apology == "apology"

\* variant: the loop goes on for as long as the provider asks for tools
loopWhileAsked(continueLoop, iterations) == continueLoop

\* while (continueLoop && iterations < MAX_ITERATIONS)
loopCondition(continueLoop, iterations) == continueLoop /\ iterations < MAX_ITERATIONS

\* the tool calls of one response, one after the other, up to the first that throws
RECURSIVE processCalls(_, _, _)
processCalls(acc, calls, streaming) ==
    IF calls = <<>> \/ acc.threw THEN acc
    ELSE LET toolCall == Head(calls)
             r == processToolCall(toolCall, acc.entries)
             display == [id |-> toolCall.id, name |-> toolCall.name, result |-> r.result,
                         pendingChange |-> r.change]
             started == IF streaming /\ toolCall.wellFormed
                        THEN Append(acc.events, Event("tool_start", toolCall.id))
                        ELSE acc.events
         IN IF r.threw
            THEN [acc EXCEPT !.threw = TRUE, !.events = started, !.entries = r.entries]
            ELSE processCalls(
                   [acc EXCEPT
                      !.messages = Append(@, Message("tool", r.result, <<>>, toolCall.id)),
                      !.pendingChanges = IF r.change = NoChange THEN @
                                         ELSE Append(@, r.change),
                      !.toolCalls = Append(@, display),
                      !.events = IF streaming
                                 THEN Append(started, Event("tool_end", toolCall.id))
                                 ELSE started,
                      !.entries = r.entries],
                   Tail(calls), streaming)

\* variant: the streaming call hands its response text back as it is
finishStreamingAsIs(r) ==
    [r EXCEPT !.pc = "done",
              !.responseContent = IF r.mode # "streaming" /\ r.iterations >= MAX_ITERATIONS
                                     /\ @ = ""
                                  THEN Apology ELSE @]

\* what stands after the loop: the apology, then the result is handed back
finish(r) ==
    [r EXCEPT !.pc = "done",
              !.responseContent = IF r.iterations >= MAX_ITERATIONS /\ @ = ""
                                  THEN Apology ELSE @]

Failed(r) == [r EXCEPT !.pc = "failed"]

initialize ==
    /\ run.pc \in {"idle", "done", "failed"}
    /\ initialized' = TRUE
    /\ messages' = <<Message("system", "prompt", <<>>, 0)>>
    /\ UNCHANGED <<loreEntries, run, events, engineVars, settingsVars>>

\* sendMessage and sendMessageStreaming up to the first provider call
send(streaming) ==
    /\ run.pc = "idle"
    /\ IF ~initialized
       THEN /\ run' = Failed([NoRun EXCEPT !.mode = IF streaming THEN "streaming" ELSE "plain"])
            /\ events' = IF streaming THEN <<Event("error", 0)>> ELSE events
            /\ UNCHANGED messages
       ELSE /\ run' = [NoRun EXCEPT !.pc = "loop",
                                    !.mode = IF streaming THEN "streaming" ELSE "plain"]
            /\ messages' = Append(messages, Message("user", "text", <<>>, 0))
            /\ UNCHANGED events
    /\ UNCHANGED <<initialized, loreEntries, engineVars, settingsVars>>

\* one turn of the loop, from the provider's response to the next test of the
\* loop condition: the run, the history, the events and the entries after it
turn(r, ms, evs, es, response) ==
    LET streaming == r.mode = "streaming"
        thinking == IF streaming THEN Append(evs, Event("thinking", 0)) ELSE evs
        asked == Append(ms, Message("assistant", response.content, response.calls, 0))
        acc0 == [messages |-> asked, pendingChanges |-> r.pendingChanges,
                 toolCalls |-> r.toolCalls, events |-> thinking,
                 entries |-> es, threw |-> FALSE]
        acc == processCalls(acc0, response.calls, streaming)
        counted == [r EXCEPT !.iterations = @ + 1, !.lastResponse = response.kind,
                             !.toolCount = @ + Len(response.calls)]
        after == [counted EXCEPT !.pendingChanges = acc.pendingChanges,
                                 !.toolCalls = acc.toolCalls, !.continueLoop = TRUE]
        final == [counted EXCEPT !.responseContent = response.content,
                                 !.continueLoop = FALSE]
        Outcome(r2, ms2, evs2, es2) ==
            [run |-> r2, messages |-> ms2, events |-> evs2, entries |-> es2]
    IN CASE response.kind = "throw" ->
              Outcome(Failed(counted), ms,
                      IF streaming THEN Append(thinking, Event("error", 0)) ELSE evs, es)
         [] response.kind = "final" ->
              Outcome(finish(final),
                      Append(ms, Message("assistant", response.content, <<>>, 0)),
                      IF streaming THEN Append(thinking, Event("done", 0)) ELSE evs, es)
         [] response.kind = "tools" ->
              IF acc.threw
              THEN Outcome(Failed(after), acc.messages,
                           IF streaming THEN Append(acc.events, Event("error", 0))
                           ELSE evs, acc.entries)
              ELSE IF loopCondition(after.continueLoop, after.iterations)
              THEN Outcome(after, acc.messages,
                           IF streaming THEN Append(acc.events, Event("message", 0))
                           ELSE evs, acc.entries)
              ELSE Outcome(finish(after), acc.messages,
                           IF streaming
                           THEN acc.events \o <<Event("message", 0), Event("done", 0)>>
                           ELSE evs, acc.entries)

\* the provider call and everything up to the next one
iterate(response) ==
    LET next == turn(run, messages, events, loreEntries, response)
    IN /\ run.pc = "loop"
       /\ loopCondition(run.continueLoop, run.iterations)
       /\ run.iterations <= MAX_ITERATIONS
       /\ run' = next.run
       /\ messages' = next.messages
       /\ events' = next.events
       /\ loreEntries' = next.entries
       /\ UNCHANGED <<initialized, engineVars, settingsVars>>

\* ---- approval
\* [...indices].sort((a, b) => b - a)
RECURSIVE sortDescending(_)
sortDescending(is) ==
    IF is = <<>> THEN <<>>
    ELSE LET m == Max(Range(is))
             first == Min({i \in 1..Len(is) : is[i] = m})
             rest == [i \in 1..(Len(is) - 1) |-> IF i < first THEN is[i] ELSE is[i + 1]]
         IN <<m>> \o sortDescending(rest)

\* newEntries.splice(index, 1); an index that is no number counts as 0
splice(es, index) ==
    LET at == IF index = NoIndex THEN 0 ELSE index
    IN IF at >= Len(es) THEN es
       ELSE [i \in 1..(Len(es) - 1) |-> IF i <= at THEN es[i] ELSE es[i + 1]]

RECURSIVE spliceAll(_, _)
spliceAll(es, is) ==
    IF is = <<>> THEN es ELSE spliceAll(splice(es, Head(is)), Tail(is))

\* newEntries[index] = { ...newEntries[index], ...updates }
assign(es, index, updates) ==
    [i \in 1..Max({Len(es), index + 1}) |->
        IF i = index + 1
        THEN IF i <= Len(es) /\ es[i] # Hole THEN [es[i] EXCEPT !.text = updates]
             ELSE LoreEntry(0, updates, 0)
        ELSE IF i <= Len(es) THEN es[i] ELSE Hole]

applyChange(change, es) ==
    CASE change.type = "create" -> Append(es, change.entry)
      [] change.type = "update" ->
           IF change.index # NoIndex THEN assign(es, change.index, change.updates) ELSE es
      [] change.type = "delete" ->
           IF change.index # NoIndex THEN splice(es, change.index) ELSE es
      [] change.type = "merge" ->
           Append(spliceAll(es, sortDescending(change.indices)), change.entry)
      [] OTHER -> es

\* the tool result of the change is rewritten with the decision
handleApproval(ms, change, approved) ==
    LET found == {i \in 1..Len(ms) :
                    ms[i].role = "tool" /\ ms[i].tool_call_id = change.toolCallId}
    IN IF found = {} THEN ms
       ELSE [ms EXCEPT ![Min(found)].content = IF approved THEN "approved" ELSE "rejected"]

\* the user decides on a pending change; an approved one is applied
decide(k, approved) ==
    /\ run.pc = "done"
    /\ k \in (1..Len(run.pendingChanges)) \ run.applied
    /\ messages' = handleApproval(messages, run.pendingChanges[k], approved)
    /\ loreEntries' = IF approved THEN applyChange(run.pendingChanges[k], loreEntries)
                      ELSE loreEntries
    /\ run' = [run EXCEPT !.applied = @ \cup {k}]
    /\ UNCHANGED <<initialized, events, engineVars, settingsVars>>


\* ------------------------------------------------------------ specification
Init ==
    /\ rows = [i \in {1} |-> [id |-> 1, kind |-> "characters", branchId |-> MainBranch,
                              overridesId |-> NoOverride, status |-> "healthy",
                              tombstone |-> FALSE]]
    /\ nextId = 2
    /\ timeTracker = 0
    /\ currentLocationId = 0
    /\ entries = {}
    /\ snapshots = {}
    /\ branches = [b \in {MainBranch} |-> [parentId |-> NoParent, forkPosition |-> 0]]
    /\ tx = NoTx
    /\ rollbacks = 0
    /\ last = [op |-> "init", branchId |-> MainBranch, position |-> 0, undone |-> 0,
               store |-> NoStore]
    /\ experimentalFeatures = defaultExperimentalFeatures
    /\ hasEverBackedUp = FALSE
    /\ settingsLog = [op |-> "none", before |-> defaultExperimentalFeatures]
    /\ initialized = FALSE
    /\ messages = <<>>
    /\ loreEntries = InitialLore
    /\ run = NoRun
    /\ events = <<>>

\* the story on its main branch: full change-sets and cascade rollback
Record ==
    \E cs \in ChangeSets(rows, branches, MainBranch, timeTracker) :
      \E createsFirst \in BOOLEAN :
        RecordAndApply(MainBranch, cs, TRUE, createsFirst)

Rollback(limit) ==
    /\ rollbacks < limit
    /\ \E b \in DOMAIN branches, p \in 1..(MaxPosition + 1) : RollbackBegin(b, p)

Reject ==
    \E b \in DOMAIN branches, p \in 1..(MaxPosition + 1) : RollbackReject(b, p)

Next ==
    \/ Record
    \/ Rollback(MaxRollbacks)
    \/ Reject
    \/ RollbackStep
    \/ RollbackCommit
    \/ RollbackAbort

Spec == Init /\ [][Next]_vars

\* lightweight branches: one entity changed or created per entry, on any branch
BranchChangeSets(rs, brs, b, tt) ==
    {cs \in ChangeSets(rs, brs, b, tt) :
        /\ ~cs.travel
        /\ \/ Len(cs.updates) + Len(cs.creates) = 1
           \/ Len(cs.creates) = 1 /\ Len(cs.updates) = 1 /\ cs.updates[1].target = NewRef}

RecordOnBranch ==
    \E b \in DOMAIN branches :
      \E cs \in BranchChangeSets(rows, branches, b, timeTracker) :
        RecordAndApply(b, cs, TRUE, cs.updates # <<>>)

Fork ==
    \E parent \in DOMAIN branches, forkPosition \in 1..MaxPosition :
      createBranchFromCheckpoint(parent, forkPosition)

NextBranches ==
    \/ RecordOnBranch
    \/ Fork
    \/ Rollback(MaxBranchRollbacks)
    \/ RollbackStep
    \/ RollbackCommit
    \/ RollbackAbort

SpecBranches == Init /\ [][NextBranches]_vars

\* the main branch with an auto-snapshot interval that leaves positions uncovered
SparseChangeSets(rs, brs, b, tt) ==
    {cs \in ChangeSets(rs, brs, b, tt) :
        Len(cs.updates) + Len(cs.creates) + (IF cs.travel THEN 1 ELSE 0) = 1}

RecordSparse ==
    \E cs \in SparseChangeSets(rows, branches, MainBranch, timeTracker) :
        recordAndApplyEvery(MainBranch, cs, TRUE, TRUE, SparseInterval, MaxSparsePosition)

RollbackSparse ==
    /\ rollbacks < MaxRollbacks
    /\ \E p \in 1..MaxSparsePosition : RollbackBegin(MainBranch, p)

NextSparse ==
    \/ RecordSparse
    \/ RollbackSparse
    \/ RollbackStep
    \/ RollbackCommit
    \/ RollbackAbort

SpecSparse == Init /\ [][NextSparse]_vars

\* branches created, written to and deleted
DeleteBranch == \E b \in BranchIds : deleteBranch(b)

NextDelete ==
    \/ RecordOnBranch
    \/ Fork
    \/ DeleteBranch

SpecDelete == Init /\ [][NextDelete]_vars

\* a story begun before state tracking was on: entries with and without a delta
RecordLegacy ==
    \E cs \in SparseChangeSets(rows, branches, MainBranch, timeTracker) :
      \E tracked \in BOOLEAN :
        recordAndApplyEvery(MainBranch, cs, tracked, TRUE, SnapshotInterval,
                            MaxSparsePosition)

RollbackLegacy ==
    /\ rollbacks < MaxLegacyRollbacks
    /\ \E p \in 1..MaxSparsePosition : RollbackBegin(MainBranch, p)

NextLegacy ==
    \/ RecordLegacy
    \/ RollbackLegacy
    \/ RollbackStep
    \/ RollbackCommit
    \/ RollbackAbort

SpecLegacy == Init /\ [][NextLegacy]_vars

\* branches on which entities are changed and deleted
DeleteEntity == \E b \in DOMAIN branches, id \in DOMAIN rows : deleteEntity(b, id)

\* one entity changed per entry, nothing created
UpdateOnBranch ==
    \E b \in DOMAIN branches :
      \E cs \in BranchChangeSets(rows, branches, b, timeTracker) :
        /\ cs.creates = <<>>
        /\ RecordAndApply(b, cs, TRUE, TRUE)

ForkDeep ==
    \E parent \in DOMAIN branches, forkPosition \in 1..MaxPosition :
      createBranchAmong(parent, forkPosition, 0..(MaxDeepBranches - 1))

NextTombstones ==
    \/ UpdateOnBranch
    \/ ForkDeep
    \/ DeleteEntity

SpecTombstones == Init /\ [][NextTombstones]_vars

\* change-sets that update one entity twice, on main and on forked branches
RepeatBound == 2

RepeatChangeSets(rs, brs, b) ==
    {cs \in [updates : [1..RepeatBound -> UpdateOps({r.id : r \in Visible(rs, brs, b)})],
             creates : {<<>>},
             travel : {FALSE}] :
        /\ \A i \in 1..RepeatBound : cs.updates[i].target = cs.updates[1].target
        /\ cs.updates[1].status # rs[cs.updates[1].target].status}

RecordRepeat ==
    \E b \in DOMAIN branches :
      \E cs \in RepeatChangeSets(rows, branches, b) \cup
                 BranchChangeSets(rows, branches, b, timeTracker) :
        RecordAndApply(b, cs, TRUE, TRUE)

NextRepeat ==
    \/ RecordRepeat
    \/ Fork

SpecRepeat == Init /\ [][NextRepeat]_vars

\* a story three entries long with branches forked from it and rollbacks
RecordView ==
    \E b \in DOMAIN branches :
      \E cs \in BranchChangeSets(rows, branches, b, timeTracker) :
        /\ cs.creates = <<>>
        /\ recordAndApplyEvery(b, cs, TRUE, TRUE, SnapshotInterval, MaxSparsePosition)

ForkView ==
    \E parent \in DOMAIN branches, forkPosition \in 1..MaxSparsePosition :
      createBranchFromCheckpoint(parent, forkPosition)

NextView ==
    \/ RecordView
    \/ ForkView
    \/ Rollback(MaxBranchRollbacks)
    \/ RollbackStep
    \/ RollbackCommit
    \/ RollbackAbort

SpecView == Init /\ [][NextView]_vars

\* the Experimental settings panel, and a story recorded under its settings
MaxSettingsPosition == 5

SettingsChangeSets(rs, brs, b, tt) ==
    {cs \in SparseChangeSets(rs, brs, b, tt) : Len(cs.updates) = 1}

RecordUnderSettings ==
    \E cs \in SettingsChangeSets(rows, branches, MainBranch, timeTracker) :
        recordAndApplyEvery(MainBranch, cs, experimentalFeatures.stateTracking, TRUE,
                            experimentalFeatures.autoSnapshotInterval, MaxSettingsPosition)

Backup == \E result \in {"created", "cancelled", "failed"} : handleBackup(result)

StateTrackingToggle ==
    \E shouldContinue \in BOOLEAN :
        handleStateTrackingToggle(~experimentalFeatures.stateTracking, shouldContinue)

RollbackToggle == handleRollbackToggle(~experimentalFeatures.rollbackOnDelete)

LightweightBranchesToggle ==
    handleLightweightBranchesToggle(~experimentalFeatures.lightweightBranches)

SnapshotIntervalChange == \E value \in SliderValues : handleSnapshotIntervalChange(value)

ResetAll == handleResetAll

NextSettings ==
    \/ RecordUnderSettings
    \/ Backup
    \/ StateTrackingToggle
    \/ RollbackToggle
    \/ LightweightBranchesToggle
    \/ SnapshotIntervalChange
    \/ ResetAll

SpecSettings == Init /\ [][NextSettings]_vars

\* the interactive lorebook chat: one user message, the provider's answers,
\* the user's decisions
Initialize == initialize /\ ~initialized

SendMessage == send(FALSE)

SendMessageStreaming == send(TRUE)

ProviderResponds ==
    \E response \in Responses(Len(loreEntries), run.toolCount) : iterate(response)

Decide == \E k \in 1..MaxToolCalls, approved \in BOOLEAN : decide(k, approved)

NextLorebook ==
    \/ Initialize
    \/ SendMessage
    \/ SendMessageStreaming
    \/ ProviderResponds
    \/ Decide

SpecLorebook == Init /\ [][NextLorebook]_vars

\* the provider answers every call it is sent
SpecLorebookFair == SpecLorebook /\ WF_vars(ProviderResponds)

\* chains of branches that override one entity again and again
MaxChainPosition == 4
MaxChainRows == 4

RecordChain ==
    \E b \in DOMAIN branches :
      \E cs \in BranchChangeSets(rows, branches, b, timeTracker) :
        /\ cs.creates = <<>>
        /\ recordAndApplyWithin(b, cs, TRUE, TRUE, SnapshotInterval, MaxChainPosition,
                                MaxChainRows)

ForkChain ==
    \E parent \in DOMAIN branches, forkPosition \in 1..MaxChainPosition :
      createBranchFromCheckpoint(parent, forkPosition)

NextChain ==
    \/ RecordChain
    \/ ForkChain

SpecChain == Init /\ [][NextChain]_vars

\* the same chains, with one rollback
MaxChainRollbacks == 1

NextDangling ==
    \/ RecordChain
    \/ ForkChain
    \/ Rollback(MaxChainRollbacks)
    \/ RollbackStep
    \/ RollbackCommit
    \/ RollbackAbort

SpecDangling == Init /\ [][NextDangling]_vars

\* a story in which a turn can fail
RecordFailing ==
    \E cs \in ChangeSets(rows, branches, MainBranch, timeTracker) :
      \E createsFirst \in BOOLEAN, steps \in 0..(MaxUpdates + 1) :
        recordFailing(MainBranch, cs, createsFirst, steps)

NextFailing ==
    \/ Record
    \/ RecordFailing

SpecFailing == Init /\ [][NextFailing]_vars

\* ------------------------------------------------------------- properties
\* what the last rollback selected, read from the store as it was when it began
Removed == {e \in last.store.entries :
              e.branchId = last.branchId /\ e.position >= last.position}
FirstRemoved == CHOOSE e \in Removed : \A f \in Removed : e.position <= f.position
LastRemoved == CHOOSE e \in Removed : \A f \in Removed : e.position >= f.position
AllTracked == \A e \in Removed : e.worldStateDelta.tracked
Committed == last.op = "committed" /\ ~tx.active

\* nothing but the removed entries' change-sets touched the world in between
Undisturbed ==
    /\ \A e, f \in Removed : f.position = e.position + 1 => f.pre = e.post
    /\ LastRemoved.post = last.store.world

TouchedBy(e) ==
    UNION {e.worldStateDelta.createdEntities[k] \cup
           {p.id : p \in Range(e.worldStateDelta.previousState.entities[k])} : k \in Kinds}

\* C1: a rollback at the first of N consecutive recorded entries brings every
\* entity, the clock and the current location back to what they were before
\* the first of them, entities created in between are gone, and none of the
\* N entries is left.
C1_RoundTrip ==
    (Committed /\ AllTracked /\ Undisturbed) =>
        /\ \A i \in UNION {TouchedBy(e) : e \in Removed} :
             IF i \in DOMAIN FirstRemoved.pre.rows
             THEN i \in DOMAIN rows /\ rows[i] = FirstRemoved.pre.rows[i]
             ELSE i \notin DOMAIN rows
        /\ rows = FirstRemoved.pre.rows
        /\ timeTracker = FirstRemoved.pre.timeTracker
        /\ currentLocationId = FirstRemoved.pre.currentLocationId
        /\ \A e \in entries : ~(e.branchId = last.branchId /\ e.position >= last.position)

C1_Witness ==
    /\ Committed /\ AllTracked /\ Undisturbed
    /\ Cardinality(Removed) >= 2
    /\ \E e \in Removed, k \in Kinds : e.worldStateDelta.createdEntities[k] # {}
    /\ \E e \in Removed, k \in Kinds : e.worldStateDelta.previousState.entities[k] # <<>>
    /\ last.store.world.timeTracker # timeTracker
    /\ last.store.world.rows # rows

\* the complete rollback, computed in one piece from the store it began with
RECURSIVE UndoAll(_, _, _, _)
UndoAll(rs, es, b, positions) ==
    IF positions = <<>> THEN rs
    ELSE UndoAll(undoDelta(rs, EntryAt(es, b, Head(positions)).worldStateDelta),
                 es, b, Tail(positions))

AllApplied ==
    LET st == last.store
        b == last.branchId
        tracked == {e \in Removed : e.worldStateDelta.tracked}
        src == CHOOSE e \in tracked : \A f \in tracked : e.position <= f.position
    IN /\ entries = st.entries \ Removed
       /\ \A s \in snapshots : ~(s.branchId = b /\ s.entryPosition >= last.position)
       /\ rows = UndoAll(st.world.rows, st.entries, b,
                         DescSeq({e.position : e \in Removed}))
       /\ tracked # {} =>
            /\ timeTracker = src.worldStateDelta.previousState.timeTracker
            /\ currentLocationId = src.worldStateDelta.previousState.currentLocationId

NoneApplied == Store = last.store

PreviousIds(e, k) == {p.id : p \in Range(e.worldStateDelta.previousState.entities[k])}

\* C3: in every delta stored on an entry, and for every entity kind, no
\* identity is both among the created entities and in the previous state.
C3_Exclusive ==
    \A e \in entries : \A k \in Kinds :
        e.worldStateDelta.createdEntities[k] \cap PreviousIds(e, k) = {}

\* one entry updated an inherited entity through a new override row, another
\* created an entity and updated it in the same change-set
C3_Witness ==
    /\ \E e \in entries, k \in Kinds :
         \E n \in e.worldStateDelta.createdEntities[k] :
            /\ n \in DOMAIN rows
            /\ rows[n].overridesId \in PreviousIds(e, k)
    /\ \E e \in entries, k \in Kinds :
         \E n \in e.worldStateDelta.createdEntities[k] :
            /\ n \in DOMAIN e.post.rows
            /\ e.post.rows[n].overridesId = NoOverride
            /\ e.post.rows[n].status = "injured"

HasParent(b) == branches[b].parentId # NoParent

\* C4: a change-set applied on a branch that has a parent leaves what the
\* parent resolves to, for every kind, and every row owned by an ancestor of
\* the branch exactly as they were before it.
C4_Isolation ==
    \A e \in entries :
        HasParent(e.branchId) =>
            /\ \A k \in Kinds :
                 resolve(e.post.rows, branches, k, branches[e.branchId].parentId)
                   = resolve(e.pre.rows, branches, k, branches[e.branchId].parentId)
            /\ \A i \in DOMAIN e.pre.rows :
                 e.pre.rows[i].branchId \in Ancestors(branches, e.branchId) =>
                    i \in DOMAIN e.post.rows /\ e.post.rows[i] = e.pre.rows[i]

\* an entry of a child branch changed the status of an entity it inherited
C4_Witness ==
    \E e \in entries, k \in Kinds :
        /\ HasParent(e.branchId)
        /\ \E p \in Range(e.worldStateDelta.previousState.entities[k]) :
             /\ e.pre.rows[p.id].branchId \in Ancestors(branches, e.branchId)
             /\ \E r \in Range(resolve(e.post.rows, branches, k, e.branchId)) :
                  r.overridesId = p.id /\ r.status # p.status

Depth(b) == Len(Lineage(branches, b))

\* the rows of a kind that the branches on the path to b hold for one key
Holders(k, b, key) ==
    {i \in DOMAIN rows :
        /\ rows[i].kind = k
        /\ rows[i].branchId \in Range(Lineage(branches, b))
        /\ OriginalId(rows[i]) = key}

Nearest(k, b, key) ==
    CHOOSE i \in Holders(k, b, key) :
        \A j \in Holders(k, b, key) :
            \/ Depth(rows[j].branchId) < Depth(rows[i].branchId)
            \/ Depth(rows[j].branchId) = Depth(rows[i].branchId) /\ j <= i

C6_Unique ==
    \A b \in DOMAIN branches : \A k \in Kinds :
        LET list == resolve(rows, branches, k, b)
        IN \A m, n \in 1..Len(list) :
             OriginalId(list[m]) = OriginalId(list[n]) => m = n

\* after a rollback, a branch still resolves an overridden entity to one row
C6_Witness ==
    /\ rollbacks >= 1 /\ ~tx.active
    /\ \E b \in DOMAIN branches, k \in Kinds :
         /\ HasParent(b)
         /\ \E i, j \in DOMAIN rows :
              /\ i # j /\ rows[i].kind = k /\ rows[j].kind = k
              /\ rows[j].overridesId = i /\ rows[j].branchId = b
              /\ Len(resolve(rows, branches, k, b)) = 1

CreatedBy(E) == UNION {e.worldStateDelta.createdEntities[k] : e \in E, k \in Kinds}
Listing(i) == {e \in Removed : \E k \in Kinds : i \in PreviousIds(e, k)}
Recorded(e, i) ==
    LET k == CHOOSE x \in Kinds : i \in PreviousIds(e, x)
        prev == e.worldStateDelta.previousState.entities[k]
        n == Max({m \in 1..Len(prev) : prev[m].id = i})
    IN prev[n].status

\* C7: a committed rollback has deleted every entity the removed entries
\* created, has put back the recorded values of every entity one removed entry
\* lists in its previous state, and has left the entries below the target
\* position, and all other entries, as they were.
C7_UndoPerEntry ==
    Committed =>
        /\ \A i \in CreatedBy(Removed) : i \notin DOMAIN rows
        /\ \A i \in DOMAIN last.store.world.rows :
             (Cardinality(Listing(i)) = 1 /\ i \notin CreatedBy(Removed)) =>
                /\ i \in DOMAIN rows
                /\ rows[i].status = Recorded(CHOOSE e \in Listing(i) : TRUE, i)
        /\ entries = last.store.entries \ Removed

\* entry 1 created a character, entry 2 changed its status; rollbackFrom(2)
\* removed entry 2 only and the character is back to the recorded status
C7_Witness ==
    /\ Committed /\ last.position = 2
    /\ \E e1 \in entries, e2 \in Removed :
         /\ e1.position = 1 /\ e2.position = 2
         /\ \E c \in e1.worldStateDelta.createdEntities["characters"] :
              /\ c \in PreviousIds(e2, "characters")
              /\ last.store.world.rows[c].status = "injured"
              /\ c \in DOMAIN rows /\ rows[c].status = "healthy"

\* C8: a rollback works through exactly the branch's entries at or after the
\* target, highest position first, so an entity that several removed entries
\* list ends with the values recorded by the lowest of them.
C8_Order ==
    /\ tx.active =>
         tx.done \o tx.todo =
            DescSeq(SelectedPositions(entries, tx.branchId, tx.fromPosition))
    /\ Committed =>
         \A i \in DOMAIN last.store.world.rows :
            (Cardinality(Listing(i)) >= 2 /\ i \notin CreatedBy(Removed)) =>
                LET low == CHOOSE e \in Listing(i) :
                             \A f \in Listing(i) : e.position <= f.position
                IN i \in DOMAIN rows /\ rows[i].status = Recorded(low, i)

C8_Witness ==
    /\ Committed
    /\ \E i \in DOMAIN rows :
         /\ Cardinality(Listing(i)) = 2
         /\ \E e, f \in Listing(i) :
              /\ e.position < f.position
              /\ Recorded(e, i) # Recorded(f, i)
              /\ rows[i].status = Recorded(e, i)

\* C9: after a committed rollback the clock and the current location are the
\* ones recorded by the removed entry with the lowest position.
C9_ClockLocation ==
    (Committed /\ FirstRemoved.worldStateDelta.tracked) =>
        /\ timeTracker = FirstRemoved.worldStateDelta.previousState.timeTracker
        /\ currentLocationId = FirstRemoved.worldStateDelta.previousState.currentLocationId

C9_Witness ==
    /\ Committed
    /\ Cardinality(Removed) >= 2
    /\ FirstRemoved.worldStateDelta.tracked /\ LastRemoved.worldStateDelta.tracked
    /\ FirstRemoved.worldStateDelta.previousState.timeTracker
         # LastRemoved.worldStateDelta.previousState.timeTracker
    /\ FirstRemoved.worldStateDelta.previousState.currentLocationId
         # LastRemoved.worldStateDelta.previousState.currentLocationId
    /\ timeTracker = FirstRemoved.worldStateDelta.previousState.timeTracker

\* C10: after a committed rollback from position P the branch has no snapshot
\* at or after P, every snapshot taken before P is still there, and in every
\* state each snapshot refers to an entry that exists.
C10_SnapshotPurge ==
    /\ Committed =>
         /\ \A s \in snapshots :
              ~(s.branchId = last.branchId /\ s.entryPosition >= last.position)
         /\ \A s \in last.store.snapshots :
              s.entryPosition < last.position => s \in snapshots
    /\ \A s \in snapshots :
         \E e \in entries : e.branchId = s.entryBranch /\ e.position = s.entryPosition

C10_Witness ==
    /\ Committed
    /\ \E s \in last.store.snapshots :
         s.branchId = last.branchId /\ s.entryPosition = last.position
    /\ \E s \in snapshots :
         s.branchId = last.branchId /\ s.entryPosition < last.position

\* the world a replay of the branch's entries from zero arrives at after position p
replayAt(b, p) ==
    LET e == EntryAt(entries, b, p)
    IN [lists |-> ResolvedState(e.post.rows, branches, b),
        timeTracker |-> e.post.timeTracker]

Reconstructed(b, p) == reconstructAt(rows, branches, timeTracker, snapshots, b, p)

C11_Stale ==
    \E p \in OwnPositions(entries, MainBranch) :
        /\ SnapshotsBefore(snapshots, MainBranch, p) # {}
        /\ Reconstructed(MainBranch, p) # replayAt(MainBranch, p)

\* C12: deleting a branch that has children is refused, the refusal names
\* exactly the children, and branches, entries, entity rows and snapshots are
\* as they were; no branch is ever left without its parent.
C12_DeletionGuard ==
    /\ last.op = "deleteRefused" =>
         /\ last.blocking = BlockingChildren(last.before, last.branchId)
         /\ last.blocking # {}
         /\ branches = last.before
         /\ Store = last.store
    /\ last.op = "branchDeleted" => BlockingChildren(last.before, last.branchId) = {}
    /\ \A b \in DOMAIN branches \ {MainBranch} : branches[b].parentId \in DOMAIN branches

C12_Witness ==
    /\ last.op = "deleteRefused"
    /\ last.blocking # {}
    /\ \E i \in DOMAIN rows : rows[i].branchId = last.branchId
    /\ \E e \in entries : e.branchId = last.branchId

\* C13: deleting a branch without children removes the branch, its rows, its
\* entries and its snapshots, leaves every row, entry and snapshot of the
\* other branches as it was, and every remaining branch resolves as before.
C13_LeafDeletion ==
    last.op = "branchDeleted" =>
        LET b == last.branchId
            old == last.store
        IN /\ b \notin DOMAIN branches
           /\ \A i \in DOMAIN rows : rows[i].branchId # b
           /\ \A e \in entries : e.branchId # b
           /\ \A s \in snapshots : s.branchId # b
           /\ \A i \in DOMAIN old.world.rows :
                old.world.rows[i].branchId # b =>
                    i \in DOMAIN rows /\ rows[i] = old.world.rows[i]
           /\ entries = {e \in old.entries : e.branchId # b}
           /\ snapshots = {s \in old.snapshots : s.branchId # b}
           /\ \A x \in DOMAIN branches : \A k \in Kinds :
                resolve(rows, branches, k, x) = resolve(old.world.rows, last.before, k, x)

C13_Witness ==
    /\ last.op = "branchDeleted"
    /\ \E i \in DOMAIN last.store.world.rows :
         /\ last.store.world.rows[i].branchId = last.branchId
         /\ last.store.world.rows[i].overridesId # NoOverride
    /\ \E e \in last.store.entries : e.branchId = last.branchId
    /\ \E s \in last.store.snapshots : s.branchId = last.branchId
    /\ DOMAIN branches # {MainBranch}

\* a branch forked from main has just been created
ForkedFromMain == last.op = "forked" /\ branches[last.branchId].parentId = MainBranch

\* the characters main held once its entry at position p had been applied
MainAt(p) ==
    resolve(EntryAt(entries, MainBranch, p).post.rows, branches, "characters", MainBranch)

\* entries of branches forked from main that changed an inherited character
Inherited(e) ==
    {p.id : p \in Range(e.worldStateDelta.previousState.entities["characters"])}
        \cap {i \in DOMAIN e.pre.rows : e.pre.rows[i].branchId # e.branchId}

\* the first change of an inherited character on a branch: main is untouched,
\* one row is added, an override owned by the branch, and the branch shows it
OneOverrideRow ==
    \A e \in entries :
        (e.branchId \in DOMAIN branches /\ e.branchId # MainBranch
           /\ branches[e.branchId].parentId = MainBranch /\ Inherited(e) # {}) =>
            \E n \in DOMAIN e.post.rows :
                /\ DOMAIN e.post.rows = DOMAIN e.pre.rows \cup {n}
                /\ n \notin DOMAIN e.pre.rows
                /\ \A j \in DOMAIN e.pre.rows : e.post.rows[j] = e.pre.rows[j]
                /\ resolve(e.post.rows, branches, "characters", MainBranch)
                     = resolve(e.pre.rows, branches, "characters", MainBranch)
                /\ e.post.rows[n].branchId = e.branchId
                /\ e.post.rows[n].overridesId \in Inherited(e)
                /\ e.post.rows[n].status # e.pre.rows[e.post.rows[n].overridesId].status
                /\ \A r \in Range(resolve(e.post.rows, branches, "characters", e.branchId)) :
                     OriginalId(r) = e.post.rows[n].overridesId => r = e.post.rows[n]
                /\ e.post.rows[n] \in
                     Range(resolve(e.post.rows, branches, "characters", e.branchId))

TrackedRemoved == {e \in Removed : e.worldStateDelta.tracked}
FirstTracked == CHOOSE e \in TrackedRemoved : \A f \in TrackedRemoved : e.position <= f.position
LowestListing(i) == CHOOSE e \in Listing(i) : \A f \in Listing(i) : e.position <= f.position

\* C15: a rollback whose range holds an entry without a delta commits; the
\* deltas of the other entries are undone (what they created is gone, what
\* they updated has its recorded values), rows no delta mentions stay as they
\* are, and every entry of the range is deleted, the one without a delta too.
C15_MissingDelta ==
    (Committed /\ ~AllTracked) =>
        /\ \A i \in CreatedBy(Removed) : i \notin DOMAIN rows
        /\ \A i \in DOMAIN last.store.world.rows \ CreatedBy(Removed) :
             /\ i \in DOMAIN rows
             /\ rows[i].status = IF Listing(i) = {} THEN last.store.world.rows[i].status
                                 ELSE Recorded(LowestListing(i), i)
        /\ DOMAIN rows \subseteq DOMAIN last.store.world.rows
        /\ entries = last.store.entries \ Removed
        /\ \A e \in entries : e.position < last.position

C15_Witness ==
    /\ Committed /\ ~AllTracked
    /\ last.undone = 3
    /\ \E e \in TrackedRemoved : CreatedBy({e}) # {}
    /\ \E i \in DOMAIN rows :
         Listing(i) # {} /\ rows[i].status # last.store.world.rows[i].status
    /\ \E e \in Removed : ~e.worldStateDelta.tracked /\ e.pre # e.post

C17_InvalidTarget ==
    /\ last.op = "rejected" => Store = last.store
    /\ tx.active =>
         tx.fromPosition <= LastPosition(tx.pre.entries, branches, tx.branchId)
    /\ last.op \in {"committed", "aborted"} =>
         last.position <= LastPosition(last.store.entries, branches, last.branchId)

C17_Witness ==
    /\ last.op = "rejected"
    /\ entries # {} /\ snapshots # {}
    /\ last.position > LastPosition(entries, branches, last.branchId)
    /\ rollbacks > 0

\* rows of the ancestors of the branch the last rollback ran on, as they were
AncestorRows ==
    {i \in DOMAIN last.store.world.rows :
        last.store.world.rows[i].branchId \in Ancestors(branches, last.branchId)}

\* a rollback on a child branch is refused at or before the fork point and
\* removes no entry of another branch
C18_AncestorEntries ==
    /\ tx.active => tx.fromPosition > branches[tx.branchId].forkPosition
    /\ Committed =>
         \A e \in last.store.entries : e.branchId # last.branchId => e \in entries

\* C18: a rollback on a child branch is refused at or before the fork point,
\* removes no entry of an ancestor branch and changes no entity row of an
\* ancestor.
C18_AncestorsUntouched ==
    /\ C18_AncestorEntries
    /\ Committed =>
         \A i \in AncestorRows :
            i \in DOMAIN rows /\ rows[i] = last.store.world.rows[i]

\* the rows of a resolved list that stand for the entity whose original is o
Standing(list, o) == {r \in Range(list) : Root(rows, r.id) = o}

\* live rows of branch d itself that stand for the entity whose original is o
OwnOverrides(d, o) ==
    {i \in DOMAIN rows : rows[i].branchId = d /\ ~rows[i].tombstone /\ Root(rows, i) = o}

\* the last operation deleted, on a branch, an entity that belongs to an
\* ancestor and that the parent of the branch resolved at that moment
DeletedInherited ==
    /\ last.op = "entityDeleted"
    /\ last.target \in DOMAIN last.store.world.rows
    /\ last.store.world.rows[last.target].branchId # last.branchId
    /\ \E r \in Range(resolve(last.store.world.rows, branches, last.kind,
                               branches[last.branchId].parentId)) :
         Root(last.store.world.rows, r.id) = last.target

\* no override row refers to another override row
PointsAtOriginal(rs) ==
    \A i \in DOMAIN rs :
        (rs[i].overridesId # NoOverride /\ rs[i].overridesId \in DOMAIN rs) =>
            rs[rs[i].overridesId].overridesId = NoOverride

\* after an inherited entity is deleted on branch A: no row of another branch
\* is removed or changed, A no longer resolves the entity, and the parent of A
\* resolves as before and still returns the entity
TombstoneFrame ==
    LET a == last.branchId
        o == last.target
        k == last.kind
        old == last.store.world.rows
    IN /\ \A i \in DOMAIN old : old[i].branchId # a =>
              i \in DOMAIN rows /\ rows[i] = old[i]
       /\ Standing(resolve(rows, branches, k, a), o) = {}
       /\ resolve(rows, branches, k, branches[a].parentId)
            = resolve(old, branches, k, branches[a].parentId)
       /\ Standing(resolve(rows, branches, k, branches[a].parentId), o) # {}

\* a descendant of A without an override of its own omits the entity, a
\* descendant with an override of its own resolves to that override
DescendantsByOwnOverride ==
    \A d \in DOMAIN branches : last.branchId \in Ancestors(branches, d) =>
        IF OwnOverrides(d, last.target) = {}
        THEN Standing(resolve(rows, branches, last.kind, d), last.target) = {}
        ELSE Standing(resolve(rows, branches, last.kind, d), last.target)
                = {rows[i] : i \in OwnOverrides(d, last.target)}

\* rows held for the entity by the branches on the path from below A down to d
HeldBelow(d) ==
    {i \in DOMAIN rows :
        /\ Root(rows, i) = last.target
        /\ rows[i].branchId \in Range(Lineage(branches, d))
        /\ last.branchId \in Ancestors(branches, rows[i].branchId)}

NearestBelow(d) ==
    CHOOSE i \in HeldBelow(d) :
        \A j \in HeldBelow(d) : Depth(rows[j].branchId) <= Depth(rows[i].branchId)

\* a descendant of A omits the entity unless a branch on the path from below A
\* down to it holds a row for the entity; then the nearest such row decides
DescendantsByPath ==
    \A d \in DOMAIN branches : last.branchId \in Ancestors(branches, d) =>
        Standing(resolve(rows, branches, last.kind, d), last.target)
            = IF HeldBelow(d) = {} \/ rows[NearestBelow(d)].tombstone THEN {}
              ELSE {rows[NearestBelow(d)]}

C20_OverrideChain == PointsAtOriginal(rows)

\* a branch resolves two rows for one entity
C20_TwoRows ==
    \E b \in DOMAIN branches :
        \E r, q \in Range(resolve(rows, branches, "characters", b)) :
            r # q /\ Root(rows, r.id) = Root(rows, q.id)

\* C21: the previous state of every delta holds, for each entity the
\* change-set updates, the values the entity had right before the change-set
\* was applied, also for an entity the change-set updates twice.
C21_BeforeMutation ==
    \A e \in entries : \A k \in Kinds :
        \A p \in Range(e.worldStateDelta.previousState.entities[k]) :
            /\ p.id \in DOMAIN e.pre.rows
            /\ e.pre.rows[p.id].kind = k
            /\ p.status = e.pre.rows[p.id].status

\* one change-set set a character to injured and back, or twice to injured
C21_Witness ==
    \E e \in entries :
        LET prev == e.worldStateDelta.previousState.entities["characters"]
        IN /\ Len(prev) = 2
           /\ prev[1].id = prev[2].id
           /\ prev[2].status = e.pre.rows[prev[1].id].status
           /\ e.branchId # MainBranch
           /\ e.pre.rows[prev[1].id].branchId = MainBranch
           /\ e.post.rows # e.pre.rows

\* the entries a branch shows: its own, and below each fork point those of
\* the branch it was forked from
ViewEntries(b) ==
    {e \in entries : /\ e.branchId \in Range(Lineage(branches, b))
                     /\ e.position <= LastPosition(entries, branches, b)
                     /\ EntryOwner(branches, b, e.position) = e.branchId}

ViewPositions(b) == {e.position : e \in ViewEntries(b)}

\* C22: in every state the entries a branch shows have pairwise different
\* positions and leave no position out between the first and the last.
C22_Contiguous ==
    \A b \in DOMAIN branches :
        /\ \A e, f \in ViewEntries(b) : e.position = f.position => e = f
        /\ ViewPositions(b) # {} =>
              ViewPositions(b) = Min(ViewPositions(b))..Max(ViewPositions(b))

ChangesOf(id) == {k \in 1..Len(run.pendingChanges) : run.pendingChanges[k].toolCallId = id}

ChangeTools == {"create_entry", "update_entry", "delete_entry", "merge_entries"}

Gate ==
    /\ \A k \in 1..Len(run.pendingChanges) : run.pendingChanges[k].status = "pending"
    /\ \A i \in 1..Len(run.toolCalls) :
         LET d == run.toolCalls[i]
         IN IF d.name \in ChangeTools /\ d.result = "pending_approval"
            THEN Cardinality(ChangesOf(d.id)) = 1 /\ d.pendingChange # NoChange
            ELSE ChangesOf(d.id) = {} /\ d.pendingChange = NoChange
    /\ \A k \in 1..Len(run.pendingChanges) :
         \E i \in 1..Len(run.toolCalls) :
            run.toolCalls[i].pendingChange = run.pendingChanges[k]
    /\ run.applied = {} => loreEntries = InitialLore

\* C25: the tools leave the entries passed to sendMessage and
\* sendMessageStreaming as they are; every create, update, delete or merge call
\* that is accepted yields exactly one pending change, of status pending, and
\* no other call yields any; the entries change only when a change is applied.
C25_ApprovalGate ==
    /\ []Gate
    /\ [][loreEntries' # loreEntries =>
            /\ run.pc = "done"
            /\ \E k \in run'.applied \ run.applied :
                 loreEntries' = applyChange(run.pendingChanges[k], loreEntries)]_vars

\* a creation and a deletion are pending and the entries are untouched
C25_Witness ==
    /\ run.pc = "done" /\ run.applied = {}
    /\ Len(run.pendingChanges) = 2
    /\ run.pendingChanges[1].type = "create"
    /\ run.pendingChanges[2].type = "delete"
    /\ run.iterations = 3
    /\ loreEntries = InitialLore

Ended == run.pc \in {"done", "failed"}

\* C26: one user message costs at most 10 provider calls; the call goes on
\* only while every response so far carried tool calls, returns at the first
\* response without tool calls or after the tenth, and always comes to an end.
C26_Termination ==
    /\ [](/\ run.iterations <= MAX_ITERATIONS
          /\ run.iterations =
               Cardinality({i \in 1..Len(messages) : messages[i].role = "assistant"})
               + (IF run.pc = "failed" /\ run.lastResponse = "throw" THEN 1 ELSE 0)
          /\ run.pc = "loop" =>
               /\ run.iterations < MAX_ITERATIONS
               /\ run.lastResponse \in {"none", "tools"}
          /\ run.pc = "done" =>
               \/ run.lastResponse = "final"
               \/ run.lastResponse = "tools" /\ run.iterations = MAX_ITERATIONS)
    /\ (run.pc = "loop") ~> Ended

\* the tenth response still asked for tools and the call returned
C26_Witness ==
    /\ run.pc = "done"
    /\ run.iterations = MAX_ITERATIONS
    /\ run.lastResponse = "tools"
    /\ run.responseContent = Apology

\* the before-states an entry recorded for rows of another branch
InheritedUpdates(e) ==
    {p \in UNION {Range(e.worldStateDelta.previousState.entities[k]) : k \in Kinds} :
        e.pre.rows[p.id].branchId # e.branchId}

\* the override rows an entry's change-set created
OverridesCreatedBy(e) ==
    {n \in UNION {e.worldStateDelta.createdEntities[k] : k \in Kinds} :
        n \in DOMAIN e.post.rows /\ e.post.rows[n].overridesId # NoOverride}

BranchRoundTrip ==
    /\ Committed /\ AllTracked /\ Undisturbed
    /\ HasParent(last.branchId)
    /\ FirstRemoved.position = last.position
    /\ InheritedUpdates(FirstRemoved) # {}

LocalUpdates(e) ==
    {p \in UNION {Range(e.worldStateDelta.previousState.entities[k]) : k \in Kinds} :
        e.pre.rows[p.id].branchId = e.branchId}

\* a change-set that wrote to a row of its own branch kept the row and added
\* no row for that entity
LocalWritesInPlace ==
    \A e \in entries : \A p \in LocalUpdates(e) :
        /\ p.id \in DOMAIN e.post.rows
        /\ e.post.rows[p.id].branchId = e.branchId
        /\ e.post.rows[p.id].overridesId = e.pre.rows[p.id].overridesId
        /\ \A n \in OverridesCreatedBy(e) :
             OriginalId(e.post.rows[n]) # OriginalId(e.pre.rows[p.id])

OneRowPerIdentity(rs) ==
    \A i, j \in DOMAIN rs :
        (i # j /\ rs[i].branchId = rs[j].branchId) =>
            OriginalId(rs[i]) # OriginalId(rs[j])

\* C28: a write to a row that already belongs to the writing branch changes
\* that row and adds none, a branch that has overridden an entity writes to its
\* override row from then on, and no branch holds two rows with the same
\* original identity.
C28_OneOverride ==
    /\ LocalWritesInPlace
    /\ OneRowPerIdentity(rows)

\* an override row whose overridden row is no longer stored
Dangling(rs, i) ==
    /\ rs[i].overridesId # NoOverride
    /\ rs[i].overridesId \notin DOMAIN rs
    /\ ~rs[i].tombstone

Occurrences(list, i) == Cardinality({n \in 1..Len(list) : list[n].id = i})

\* C29: an override row whose overridden row no longer exists is returned by
\* the resolver of its branch like an original, once.
C29_DanglingPromoted ==
    ~tx.active =>
    \A i \in DOMAIN rows :
        Dangling(rows, i) =>
            Occurrences(resolve(rows, branches, rows[i].kind, rows[i].branchId), i) = 1

C29_Witness ==
    /\ ~tx.active
    /\ \E i \in DOMAIN rows : Dangling(rows, i)

\* C30: the delta of every tracked entry holds the current location and the
\* clock as they were before the entry's change-set was applied, whether or
\* not the change-set moves the party or advances the clock.
C30_ClockAndLocation ==
    \A e \in entries :
        e.worldStateDelta.tracked =>
            /\ e.worldStateDelta.previousState.timeTracker = e.pre.timeTracker
            /\ e.worldStateDelta.previousState.currentLocationId = e.pre.currentLocationId

\* an entry that changed neither recorded a clock and a location that are not
\* the initial ones, and an entry that changed both recorded the old ones
C30_Witness ==
    /\ \E e \in entries :
         /\ e.worldStateDelta.tracked
         /\ e.post.timeTracker = e.pre.timeTracker
         /\ e.post.currentLocationId = e.pre.currentLocationId
         /\ e.worldStateDelta.previousState.timeTracker > 0
         /\ e.worldStateDelta.previousState.currentLocationId # 0
    /\ \E e \in entries :
         /\ e.worldStateDelta.tracked
         /\ e.post.timeTracker # e.pre.timeTracker
         /\ e.worldStateDelta.previousState.timeTracker = e.pre.timeTracker

\* everything the delta of an entry lists was done to the world: the entities
\* it names as updated have changed and the entities it names as created exist
DeltaApplied(e) ==
    /\ \A k \in Kinds :
         /\ \A p \in Range(e.worldStateDelta.previousState.entities[k]) :
              /\ p.id \in DOMAIN e.post.rows
              /\ e.post.rows[p.id].status # p.status
         /\ \A n \in e.worldStateDelta.createdEntities[k] : n \in DOMAIN e.post.rows
    /\ DOMAIN e.post.rows \ DOMAIN e.pre.rows
         = UNION {e.worldStateDelta.createdEntities[k] : k \in Kinds}
    /\ \A i \in DOMAIN e.pre.rows :
         e.post.rows[i] # e.pre.rows[i] =>
            \E k \in Kinds : i \in PreviousIds(e, k)

\* C31: a turn that fails leaves no delta on its entry, whatever it had
\* already changed; every delta stored on an entry belongs to a change-set all
\* of whose mutations were applied.
C31_NoPartialDelta ==
    /\ \A e \in entries : e.worldStateDelta.tracked => DeltaApplied(e)
    /\ last.op = "failed" =>
         \A e \in entries :
            (e.branchId = last.branchId /\ e.position = last.position) =>
                e.worldStateDelta = NoDelta

\* a turn failed after a part of its mutations, next to an entry with a delta
C31_Witness ==
    /\ last.op = "failed" /\ last.undone >= 1 /\ last.missing >= 1
    /\ rows # last.store.world.rows
    /\ \E e \in entries : e.worldStateDelta.tracked
    /\ \E e \in entries :
         /\ e.position = last.position /\ e.branchId = last.branchId
         /\ e.worldStateDelta = NoDelta

\* the assistant message at i is followed by the results of its tool calls,
\* one for each, in the order of the calls
Answered(ms, i) ==
    \A j \in 1..Len(ms[i].tool_calls) :
        /\ i + j <= Len(ms)
        /\ ms[i + j].role = "tool"
        /\ ms[i + j].tool_call_id = ms[i].tool_calls[j].id

\* the tool message at i answers a tool call of the nearest assistant message
Asked(ms, i) ==
    \E a \in 1..(i - 1) :
        /\ ms[a].role = "assistant"
        /\ i - a <= Len(ms[a].tool_calls)
        /\ ms[a].tool_calls[i - a].id = ms[i].tool_call_id

Paired(ms) ==
    \A i \in 1..Len(ms) :
        /\ ms[i].role = "assistant" => Answered(ms, i)
        /\ ms[i].role = "tool" => Asked(ms, i)

\* C32: once sendMessage or sendMessageStreaming has returned or failed, every
\* assistant message with tool calls is followed in the history by one tool
\* message for each of its calls, in their order and with their ids, before
\* any other message.
C32_ToolCallPairing == Ended => Paired(messages)

\* C33: a get_entry, update_entry, delete_entry or merge_entries call whose
\* index is not one of 0..entries.length-1, or a merge of fewer than two
\* entries, is answered with an error and yields no pending change.
C33_InvalidIndex ==
    run.applied = {} =>
        /\ \A k \in 1..Len(run.pendingChanges) :
             LET change == run.pendingChanges[k] IN
             /\ change.type \in {"update", "delete"} =>
                   change.index \in 0..(Len(loreEntries) - 1)
             /\ change.type = "merge" =>
                   /\ Len(change.indices) >= 2
                   /\ \A i \in 1..Len(change.indices) :
                        change.indices[i] \in 0..(Len(loreEntries) - 1)
        /\ \A i \in 1..Len(messages) :
             (messages[i].role = "assistant" /\ messages[i].tool_calls # <<>>) =>
                 \A j \in 1..Len(messages[i].tool_calls) :
                    LET call == messages[i].tool_calls[j] IN
                    (/\ call.wellFormed
                     /\ call.name \in {"get_entry", "update_entry", "delete_entry"}
                     /\ call.index \notin 0..(Len(loreEntries) - 1)
                     /\ \A h \in 1..(j - 1) : i + h <= Len(messages)) =>
                        /\ i + j <= Len(messages)
                        /\ messages[i + j].content = "error"

\* the change the step applies to the entries, if it applies one
Applying(k) ==
    /\ run.pc = "done"
    /\ k \in run'.applied \ run.applied
    /\ \E i \in 1..Len(messages') :
         /\ messages'[i].tool_call_id = run.pendingChanges[k].toolCallId
         /\ messages'[i].role = "tool"
         /\ messages'[i].content = "approved"

\* the entries whose index is none of the given ones, in their order
RECURSIVE Keep(_, _, _)
Keep(es, named, i) ==
    IF i > Len(es) THEN <<>>
    ELSE (IF (i - 1) \in named THEN <<>> ELSE <<es[i]>>) \o Keep(es, named, i + 1)

\* C34: an approved merge, applied to the entries it was proposed for, takes
\* out the entries its indices name and no other, keeps the rest in order and
\* puts the merged entry at the end: entries.length - |indices| + 1 entries.
C34_MergeRemovesNamed ==
    [][\A k \in 1..Len(run.pendingChanges) :
         (/\ Applying(k) /\ run.applied = {}
          /\ run.pendingChanges[k].type = "merge"
          /\ Range(run.pendingChanges[k].indices) \subseteq 0..(Len(loreEntries) - 1)) =>
            LET change == run.pendingChanges[k] IN
            /\ loreEntries' = Append(Keep(loreEntries, Range(change.indices), 1),
                                      change.entry)
            /\ Len(loreEntries') = Len(loreEntries) - Len(change.indices) + 1]_vars

\* the entries a change is aimed at are the ones it recorded when proposed
\* (an entry keeps its name in this model, whatever is done to its text)
OnTarget(change, es) ==
    /\ change.type \in {"update", "delete"} =>
         At(es, change.index).name = change.previous.name
    /\ change.type = "merge" =>
         \A i \in 1..Len(change.indices) :
            At(es, change.indices[i]).name = change.previousEntries[i].name

\* C35: every approved change is applied to the entries it recorded as
\* previous / previousEntries when it was proposed, also when a change applied
\* before it has moved the entries.
C35_OnTarget ==
    [][\A k \in 1..Len(run.pendingChanges) :
         Applying(k) => OnTarget(run.pendingChanges[k], loreEntries)]_vars

Terminal(e) == e.type \in {"done", "error"}

EventsOf(type) == {i \in 1..Len(events) : events[i].type = type}

\* C36: a run of sendMessageStreaming emits one terminal event, done or error,
\* and nothing after it; a thinking event comes before every provider call;
\* every tool_start is followed by its tool_end before the next tool_start;
\* the message event of an iteration comes after all its tool_end events.
C36_EventOrder ==
    run.mode = "streaming" =>
        /\ \A i \in 1..Len(events) : Terminal(events[i]) => i = Len(events)
        /\ Ended <=> (events # <<>> /\ Terminal(events[Len(events)]))
        /\ initialized => Cardinality(EventsOf("thinking")) = run.iterations
        /\ \A i \in EventsOf("tool_start") :
             /\ i < Len(events)
             /\ events[i + 1] = Event("tool_end", events[i].id)
        /\ \A i \in EventsOf("tool_end") :
             i > 1 /\ events[i - 1] = Event("tool_start", events[i].id)
        /\ \A i \in EventsOf("message") :
             /\ i > 1 /\ events[i - 1].type = "tool_end"
             /\ i < Len(events) => events[i + 1].type \in {"thinking", "done"}

\* the same run in the other mode
Other(r) == [r EXCEPT !.mode = IF @ = "streaming" THEN "plain" ELSE "streaming"]

\* what the caller and the history show of a turn
Shown(t) ==
    [messages |-> t.messages, pendingChanges |-> t.run.pendingChanges,
     response |-> t.run.responseContent, pc |-> t.run.pc, entries |-> t.entries,
     iterations |-> t.run.iterations, continueLoop |-> t.run.continueLoop]

C38_ApologyOnlyAtLimit ==
    run.pc = "done" =>
        /\ run.responseContent = Apology =>
              run.lastResponse = "tools" /\ run.iterations = MAX_ITERATIONS
        /\ run.lastResponse = "final" =>
              \E i \in 1..Len(messages) :
                 /\ messages[i].role = "assistant" /\ messages[i].tool_calls = <<>>
                 /\ \A j \in (i + 1)..Len(messages) : messages[j].role # "assistant"
                 /\ run.responseContent = messages[i].content

====
